---- MODULE Spec2Model ----
(***************************************************************************)
(* Model of SessionManager (src/session_management.js): the session        *)
(* identifier, the activity state, the inactivity timer, and the           *)
(* asynchronous cleanup / manual cleanup / upload / chat / info calls on a *)
(* single-threaded event loop (macrotasks = browser events, timer fires    *)
(* and network responses; microtasks = continuations of resolved awaits).  *)
(***************************************************************************)
EXTENDS Integers, Sequences, FiniteSets, TLC

\* ------------------------------------------------------------------ bounds
\* number of setTimeout calls explored (browser timer ids are 1..MaxTimers)
MaxTimers == 2
\* number of asynchronous invocations explored (cleanup, manual cleanup,
\* upload, chat, session info)
MaxCalls == 2
\* number of identifiers generateSessionId may produce
MaxGen == 2
\* number of distinct identifiers the server may assign on upload
MaxSrv == 1
\* clock granularity: the timeout elapses in TimeSteps ticks
TimeSteps == 2

\* ------------------------------------------------------------ program data
\* this.INACTIVITY_TIMEOUT, in milliseconds
INACTIVITY_TIMEOUT == 5 * 60 * 1000

TickMs == INACTIVITY_TIMEOUT \div TimeSteps

\* the JavaScript null (sessionId, an absent storage item)
NULL == <<"null", 0>>

\* the input events that reset the timer
activityEvents == {"mousedown", "mousemove", "keypress", "scroll", "touchstart"}

\* identifiers produced by generateSessionId: the n-th generated token.
\* The 122 random bits make the tokens practically unique, so each is fresh.
GenId(n) == <<"gen", n>>
\* identifiers assigned by the server in an upload response
SrvIds == {<<"srv", k>> : k \in 1..MaxSrv}

\* outcomes of a fetch: 2xx, non-success status, rejected promise
Outcomes == {"ok", "status", "error"}

VARIABLES
    sessionId,        \* this.sessionId
    isActive,         \* this.isActive
    inactivityTimer,  \* this.inactivityTimer: 0 is null, else a timer id
    storage,          \* sessionStorage['chatbot_session_id'], NULL if absent
    timers,           \* browser: pending timeouts [id, remaining, elapsed, by, stale]
    nextTimerId,      \* browser: id the next setTimeout returns
    genCount,         \* number of identifiers generated so far
    epoch,            \* number of identifiers established so far
    requests,         \* network: fetches in flight [kind, sid, call, epoch];
                      \* call numbers calls for delete / upload, queries else
    calls,            \* async invocations: [op, status] by call number
    queries,          \* chat / info invocations: [op, status] by query number
    microtasks,       \* continuations [call, outcome] to run before the next event
    events,           \* payloads of the sessionChanged events dispatched
    lastSwitch,       \* the most recent focus / blur / visibility event
    last              \* the handler that ran last: [op, arg, sid, call, stale, elapsed]

vars == <<sessionId, isActive, inactivityTimer, storage, timers, nextTimerId,
          genCount, epoch, requests, calls, queries, microtasks, events,
          lastSwitch, last>>

\* ----------------------------------------------------------------- timers
\* clearTimeout(id): cancels the pending timeout with that id, if any
clearTimeout(ts, id) == {t \in ts : t.id # id}

\* setTimeout(cb, delay): schedules a timeout under a fresh id
setTimeout(ts, id, delay, by) ==
    ts \cup {[id |-> id, remaining |-> delay, elapsed |-> 0, by |-> by,
              stale |-> FALSE]}

\* clearInactivityTimer(): [handle, timers] afterwards
clearInactivityTimer(h, ts) ==
    IF h # 0 THEN [handle |-> 0, timers |-> clearTimeout(ts, h)]
             ELSE [handle |-> h, timers |-> ts]

\* startInactivityTimer() that forgets to clear the previous timer
startInactivityTimer_noClear(h, ts, id, by) ==
    [handle |-> id, timers |-> setTimeout(ts, id, INACTIVITY_TIMEOUT, by)]

\* startInactivityTimer() that passes a shorter delay to setTimeout
startInactivityTimer_shortDelay(h, ts, id, by) ==
    LET c == clearInactivityTimer(h, ts)
    IN  [handle |-> id, timers |-> setTimeout(c.timers, id, TickMs, by)]

\* startInactivityTimer(): [handle, timers] afterwards
startInactivityTimer(h, ts, id, by) ==
    LET c == clearInactivityTimer(h, ts)
    IN  [handle |-> id, timers |-> setTimeout(c.timers, id, INACTIVITY_TIMEOUT, by)]


\* ------------------------------------------------------ activity handlers
\* onActivityResume() that leaves the timer running
onActivityResume_noClear(h, ts) ==
    [isActive |-> TRUE, handle |-> h, timers |-> ts]

\* onActivityResume(): [isActive, handle, timers] afterwards
onActivityResume(h, ts) ==
    LET c == clearInactivityTimer(h, ts)
    IN  [isActive |-> TRUE, handle |-> c.handle, timers |-> c.timers]

\* onActivityPause() that forgets to record the pause
onActivityPause_keepsActive(a, h, ts, id) ==
    LET s == startInactivityTimer(h, ts, id, "pause")
    IN  [isActive |-> a, handle |-> s.handle, timers |-> s.timers]

\* onActivityPause(): [isActive, handle, timers] afterwards
onActivityPause(a, h, ts, id) ==
    LET s == startInactivityTimer(h, ts, id, "pause")
    IN  [isActive |-> FALSE, handle |-> s.handle, timers |-> s.timers]

\* resetInactivityTimer() that clears the timer and does not start it again
resetInactivityTimer_noRestart(a, h, ts, id) ==
    IF ~a
    THEN [isActive |-> a, handle |-> h, timers |-> ts]
    ELSE LET c == clearInactivityTimer(h, ts)
         IN  [isActive |-> a, handle |-> c.handle, timers |-> c.timers]

\* resetInactivityTimer() without the early return for a paused tab
resetInactivityTimer_noGuard(a, h, ts, id) ==
    LET c == clearInactivityTimer(h, ts)
        s == startInactivityTimer(c.handle, c.timers, id, "input")
    IN  [isActive |-> a, handle |-> s.handle, timers |-> s.timers]

\* resetInactivityTimer(): [isActive, handle, timers] afterwards
resetInactivityTimer(a, h, ts, id) ==
    IF ~a
    THEN [isActive |-> a, handle |-> h, timers |-> ts]
    ELSE LET c == clearInactivityTimer(h, ts)
             s == startInactivityTimer(c.handle, c.timers, id, "input")
         IN  [isActive |-> a, handle |-> s.handle, timers |-> s.timers]

\* ------------------------------------------------------------- identifier
\* getOrCreateSessionId() that generates whatever the slot holds
getOrCreateSessionId_alwaysNew(stored, n) ==
    [sessionId |-> GenId(n + 1), storage |-> GenId(n + 1), genCount |-> n + 1]

\* getOrCreateSessionId(): reads the slot, generates and stores if it is empty
getOrCreateSessionId(stored, n) ==
    IF stored = NULL
    THEN [sessionId |-> GenId(n + 1), storage |-> GenId(n + 1), genCount |-> n + 1]
    ELSE [sessionId |-> stored, storage |-> stored, genCount |-> n]

\* ---------------------------------------------------------------- cleanup
\* cleanupSession() that skips the check for a held identifier
cleanupSession_noCheck(sid, n, ep) ==
    {[kind |-> "delete", sid |-> sid, call |-> n, epoch |-> ep]}

\* cleanupSession() up to its await: the fetches it issues
cleanupSession(sid, n, ep) ==
    IF sid = NULL
    THEN {}
    ELSE {[kind |-> "delete", sid |-> sid, call |-> n, epoch |-> ep]}

\* cleanupSession() after its await, clearing local state whatever the outcome
cleanupResume_alwaysClears(outcome, sid, store) ==
    [sessionId |-> NULL, storage |-> NULL, status |-> "returned"]

\* cleanupSession() after its await, without the try / catch
cleanupResume_noCatch(outcome, sid, store) ==
    IF outcome = "ok"
    THEN [sessionId |-> NULL, storage |-> NULL, status |-> "returned"]
    ELSE [sessionId |-> sid, storage |-> store,
          status |-> IF outcome = "error" THEN "threw" ELSE "returned"]

\* cleanupSession() after its await, forgetting sessionStorage.removeItem
cleanupResume_keepsSlot(outcome, sid, store) ==
    IF outcome = "ok"
    THEN [sessionId |-> NULL, storage |-> store, status |-> "returned"]
    ELSE [sessionId |-> sid, storage |-> store, status |-> "returned"]

\* cleanupSession() after its await: [sessionId, storage, status] afterwards
cleanupResume(outcome, sid, store) ==
    IF outcome = "ok"
    THEN [sessionId |-> NULL, storage |-> NULL, status |-> "returned"]
    ELSE [sessionId |-> sid, storage |-> store, status |-> "returned"]

\* the cleanup calls leave pending timers alone; the model records on each
\* pending timer that a cleanup call was made after it was armed
MarkStale(ts) == {[t EXCEPT !.stale = TRUE] : t \in ts}

\* manualCleanup() after its await, without notifySessionChange()
manualResume_noNotify(n, evs) ==
    [sessionId |-> GenId(n + 1), storage |-> GenId(n + 1), events |-> evs]

\* manualCleanup() after its await: generate, persist, notifySessionChange()
manualResume(n, evs) ==
    [sessionId |-> GenId(n + 1), storage |-> GenId(n + 1),
     events |-> Append(evs, GenId(n + 1))]

\* ----------------------------------------------------------------- upload
\* uploadFiles() after its await, logging a failure without rethrowing it
uploadResume_swallows(outcome, newSid, sid, store) ==
    IF outcome = "ok"
    THEN [sessionId |-> newSid, storage |-> newSid, status |-> "returned"]
    ELSE [sessionId |-> sid, storage |-> store, status |-> "returned"]

\* uploadFiles() after its await: [sessionId, storage, status] afterwards
uploadResume(outcome, newSid, sid, store) ==
    IF outcome = "ok"
    THEN [sessionId |-> newSid, storage |-> newSid, status |-> "returned"]
    ELSE [sessionId |-> sid, storage |-> store, status |-> "threw"]

\* ------------------------------------------------------------------- chat
\* sendMessage() without the check for a held identifier
sendMessage_noCheck(sid, n, ep) ==
    [requests |-> {[kind |-> "chat", sid |-> sid, call |-> n, epoch |-> ep]},
     status |-> "pending", error |-> ""]

\* sendMessage() up to its await: the fetch it issues, or the error it throws
sendMessage(sid, n, ep) ==
    IF sid = NULL
    THEN [requests |-> {}, status |-> "threw", error |-> "No active session"]
    ELSE [requests |-> {[kind |-> "chat", sid |-> sid, call |-> n, epoch |-> ep]},
          status |-> "pending", error |-> ""]

\* sendMessage() after its await: how the call ends
chatResume(outcome) ==
    IF outcome = "ok" THEN "returned" ELSE "threw"

\* ------------------------------------------------------------- session info
\* getSessionInfo() up to its await: the fetch it issues, or null at once
getSessionInfo(sid, n, ep) ==
    IF sid = NULL
    THEN [requests |-> {}, status |-> "null"]
    ELSE [requests |-> {[kind |-> "info", sid |-> sid, call |-> n, epoch |-> ep]},
          status |-> "pending"]

\* getSessionInfo() after its await, without the try / catch
infoResume_noCatch(outcome) ==
    IF outcome = "ok" THEN "metadata"
    ELSE IF outcome = "error" THEN "threw" ELSE "null"

\* getSessionInfo() after its await, returning the body whatever the status
infoResume_noOkCheck(outcome) ==
    IF outcome = "error" THEN "null" ELSE "metadata"

\* getSessionInfo() after its await: what the call returns
infoResume(outcome) ==
    IF outcome = "ok" THEN "metadata" ELSE "null"

\* ------------------------------------------------------------------- Init
\* the record kept of the handler that ran last
Did(op, arg, sid, call, stale) ==
    [op |-> op, arg |-> arg, sid |-> sid, call |-> call, stale |-> stale,
     elapsed |-> 0]

NoOp == Did("init", "", NULL, 0, FALSE)

\* new SessionManager(): constructor, init()
Init ==
    \E stored \in {NULL} \cup SrvIds :
        LET g == getOrCreateSessionId(stored, 0)
        IN  /\ sessionId = g.sessionId
            /\ storage = g.storage
            /\ genCount = g.genCount
            /\ epoch = 1
            /\ isActive = TRUE
            /\ inactivityTimer = 0
            /\ timers = {}
            /\ nextTimerId = 1
            /\ requests = {}
            /\ calls = <<>>
            /\ queries = <<>>
            /\ microtasks = <<>>
            /\ events = <<>>
            /\ lastSwitch = "none"
            /\ last = NoOp

\* an event handler runs only when no continuation is waiting
Idle == microtasks = <<>>

CanArm == nextTimerId <= MaxTimers
CanCall == Len(calls) + Len(queries) < MaxCalls
CanQuery == CanCall

PendingManual == Cardinality({i \in 1..Len(calls) :
                     calls[i].op = "manual" /\ calls[i].status = "pending"})

\* the state after an activity handler returned r, a pause dropping the
\* identifier held in memory
Apply_dropsId(r, op, arg) ==
    /\ isActive' = r.isActive
    /\ inactivityTimer' = r.handle
    /\ timers' = r.timers
    /\ nextTimerId' = IF r.handle = nextTimerId THEN nextTimerId + 1 ELSE nextTimerId
    /\ last' = Did(op, arg, sessionId, 0, FALSE)
    /\ sessionId' = IF r.isActive THEN sessionId ELSE NULL
    /\ UNCHANGED <<storage, genCount, epoch, requests, calls,
                   queries, microtasks, events>>

\* the state after an activity handler returned r
Apply(r, op, arg) ==
    /\ isActive' = r.isActive
    /\ inactivityTimer' = r.handle
    /\ timers' = r.timers
    /\ nextTimerId' = IF r.handle = nextTimerId THEN nextTimerId + 1 ELSE nextTimerId
    /\ last' = Did(op, arg, sessionId, 0, FALSE)
    /\ UNCHANGED <<sessionId, storage, genCount, epoch, requests, calls,
                   queries, microtasks, events>>

\* window 'focus'
Focus ==
    /\ Idle
    /\ Apply(onActivityResume(inactivityTimer, timers), "focus", "")
    /\ lastSwitch' = "focus"

\* window 'blur'
Blur ==
    /\ Idle /\ CanArm
    /\ Apply(onActivityPause(isActive, inactivityTimer, timers, nextTimerId), "blur", "")
    /\ lastSwitch' = "blur"

\* document 'visibilitychange'
VisibilityChange ==
    /\ Idle
    /\ \E hidden \in BOOLEAN :
        IF hidden
        THEN /\ CanArm
             /\ Apply(onActivityPause(isActive, inactivityTimer, timers, nextTimerId),
                      "hidden", "")
             /\ lastSwitch' = "hidden"
        ELSE /\ Apply(onActivityResume(inactivityTimer, timers), "shown", "")
             /\ lastSwitch' = "shown"

\* document 'mousedown', 'mousemove', 'keypress', 'scroll', 'touchstart'
InputActivity ==
    /\ Idle
    /\ isActive => CanArm
    /\ \E ev \in activityEvents :
        Apply(resetInactivityTimer(isActive, inactivityTimer, timers, nextTimerId),
              "input", "")
    /\ UNCHANGED lastSwitch

\* time passes; a timeout that is due fires before time passes further
Tick ==
    /\ Idle
    /\ timers # {}
    /\ \A t \in timers : t.remaining > 0
    /\ timers' = {[t EXCEPT !.remaining =
                      IF t.remaining > TickMs THEN t.remaining - TickMs ELSE 0,
                             !.elapsed =
                      IF t.remaining > TickMs THEN t.elapsed + TickMs
                                              ELSE t.elapsed + t.remaining] :
                  t \in timers}
    /\ last' = Did("tick", "", sessionId, 0, FALSE)
    /\ UNCHANGED <<sessionId, isActive, inactivityTimer, storage, nextTimerId,
                   genCount, epoch, requests, calls, queries, microtasks, events,
                   lastSwitch>>

\* a call of cleanupSession() up to its await, made by `by` (op names the
\* handler); whoever calls it, pending timeouts are left as they are
CallCleanup(op, arg, stale, by, ts, el) ==
    LET n == Len(calls) + 1
        reqs == cleanupSession(sessionId, n, epoch)
    IN  /\ requests' = requests \cup reqs
        /\ calls' = Append(calls, [op |-> by,
                        status |-> IF reqs = {} /\ by = "cleanup"
                                   THEN "returned" ELSE "pending"])
        /\ microtasks' = IF reqs = {} /\ by = "manual"
                         THEN Append(microtasks, [call |-> n, outcome |-> "none"])
                         ELSE microtasks
        /\ timers' = MarkStale(ts)
        /\ last' = [Did(op, arg, sessionId, n, stale) EXCEPT !.elapsed = el]
        /\ UNCHANGED <<sessionId, isActive, inactivityTimer, storage, nextTimerId,
                       genCount, epoch, queries, events, lastSwitch>>

\* the timeout callback of startInactivityTimer() runs: cleanupSession(),
\* not awaited
TimerFire ==
    /\ Idle /\ CanCall
    /\ \E t \in timers :
        /\ t.remaining = 0
        /\ CallCleanup("timerFire", t.by, t.stale, "cleanup", timers \ {t},
                       t.elapsed)

\* window 'beforeunload': cleanupSession(), not awaited
BeforeUnload ==
    /\ Idle /\ CanCall
    /\ CallCleanup("unload", "", FALSE, "cleanup", timers, 0)

\* window.cleanupSession() = manualCleanup(), up to `await this.cleanupSession()`
ManualCleanup ==
    /\ Idle /\ CanCall
    /\ genCount + PendingManual < MaxGen
    /\ CallCleanup("manualCleanup", "", FALSE, "manual", timers, 0)

\* the response of a delete request arrives: cleanupSession() continues; if
\* manualCleanup() awaits it, its continuation is queued
DeleteResponse ==
    /\ Idle
    /\ \E r \in requests : \E outcome \in Outcomes :
        LET c == cleanupResume(outcome, sessionId, storage)
            manual == calls[r.call].op = "manual"
        IN  /\ r.kind = "delete"
            /\ requests' = requests \ {r}
            /\ sessionId' = c.sessionId
            /\ storage' = c.storage
            /\ calls' = IF manual /\ c.status = "returned"
                        THEN calls
                        ELSE [calls EXCEPT ![r.call].status = c.status]
            /\ microtasks' = IF manual /\ c.status = "returned"
                             THEN Append(microtasks, [call |-> r.call, outcome |-> outcome])
                             ELSE microtasks
            /\ last' = Did("deleteResponse", outcome, sessionId, r.call, FALSE)
    /\ UNCHANGED <<isActive, inactivityTimer, timers, nextTimerId, genCount,
                   epoch, queries, events, lastSwitch>>

\* manualCleanup() continues after its await
ManualResume ==
    /\ microtasks # <<>>
    /\ LET n == Head(microtasks).call
           m == manualResume(genCount, events)
       IN  /\ sessionId' = m.sessionId
           /\ storage' = m.storage
           /\ events' = m.events
           /\ calls' = [calls EXCEPT ![n].status = "returned"]
           /\ last' = Did("manualResume", Head(microtasks).outcome, sessionId, n, FALSE)
    /\ microtasks' = Tail(microtasks)
    /\ genCount' = genCount + 1
    /\ epoch' = epoch + 1
    /\ UNCHANGED <<isActive, inactivityTimer, timers, nextTimerId, requests,
                   queries, lastSwitch>>

\* uploadFiles(files) up to its await
UploadFiles ==
    /\ Idle /\ CanCall
    /\ LET n == Len(calls) + 1
       IN  /\ requests' = requests \cup
                  {[kind |-> "upload", sid |-> NULL, call |-> n, epoch |-> epoch]}
           /\ calls' = Append(calls, [op |-> "upload", status |-> "pending"])
           /\ last' = Did("uploadFiles", "", sessionId, n, FALSE)
    /\ UNCHANGED <<sessionId, isActive, inactivityTimer, storage, timers,
                   nextTimerId, genCount, epoch, queries, microtasks, events,
                   lastSwitch>>

\* the response of an upload request arrives: uploadFiles() continues
UploadResponse ==
    /\ Idle
    /\ \E r \in requests : \E outcome \in Outcomes : \E newSid \in SrvIds :
        LET u == uploadResume(outcome, newSid, sessionId, storage)
        IN  /\ r.kind = "upload"
            /\ requests' = requests \ {r}
            /\ sessionId' = u.sessionId
            /\ storage' = u.storage
            /\ epoch' = IF outcome = "ok" THEN epoch + 1 ELSE epoch
            /\ calls' = [calls EXCEPT ![r.call].status = u.status]
            /\ last' = Did("uploadResponse", outcome, sessionId, r.call, FALSE)
    /\ UNCHANGED <<isActive, inactivityTimer, timers, nextTimerId, genCount,
                   queries, microtasks, events, lastSwitch>>

\* sendMessage(message) up to its await
SendMessage ==
    /\ Idle /\ CanQuery
    /\ LET n == Len(queries) + 1
           c == sendMessage(sessionId, n, epoch)
       IN  /\ requests' = requests \cup c.requests
           /\ queries' = Append(queries, [op |-> "chat", status |-> c.status])
           /\ last' = Did("sendMessage", c.error, sessionId, n, FALSE)
    /\ UNCHANGED <<sessionId, isActive, inactivityTimer, storage, timers,
                   nextTimerId, genCount, epoch, calls, microtasks, events,
                   lastSwitch>>

\* the response of a chat request arrives: sendMessage() continues
ChatResponse ==
    /\ Idle
    /\ \E r \in requests : \E outcome \in Outcomes :
        /\ r.kind = "chat"
        /\ requests' = requests \ {r}
        /\ queries' = [queries EXCEPT ![r.call].status = chatResume(outcome)]
        /\ last' = Did("chatResponse", outcome, sessionId, r.call, FALSE)
    /\ UNCHANGED <<sessionId, isActive, inactivityTimer, storage, timers,
                   nextTimerId, genCount, epoch, calls, microtasks, events,
                   lastSwitch>>

\* window.getSessionInfo() = getSessionInfo(), up to its await
GetSessionInfo ==
    /\ Idle /\ CanQuery
    /\ LET n == Len(queries) + 1
           c == getSessionInfo(sessionId, n, epoch)
       IN  /\ requests' = requests \cup c.requests
           /\ queries' = Append(queries, [op |-> "info", status |-> c.status])
           /\ last' = Did("getSessionInfo", "", sessionId, n, FALSE)
    /\ UNCHANGED <<sessionId, isActive, inactivityTimer, storage, timers,
                   nextTimerId, genCount, epoch, calls, microtasks, events,
                   lastSwitch>>

\* the response of an info request arrives: getSessionInfo() continues
InfoResponse ==
    /\ Idle
    /\ \E r \in requests : \E outcome \in Outcomes :
        /\ r.kind = "info"
        /\ requests' = requests \ {r}
        /\ queries' = [queries EXCEPT ![r.call].status = infoResume(outcome)]
        /\ last' = Did("infoResponse", outcome, sessionId, r.call, FALSE)
    /\ UNCHANGED <<sessionId, isActive, inactivityTimer, storage, timers,
                   nextTimerId, genCount, epoch, calls, microtasks, events,
                   lastSwitch>>

\* the invocations of a page that is gone never end
Abandon(cs) ==
    [i \in 1..Len(cs) |->
        IF cs[i].status = "pending"
        THEN [cs[i] EXCEPT !.status = "abandoned"] ELSE cs[i]]

\* the page is loaded again in the same tab: the old manager, its timers and
\* the continuations of its fetches are gone, sessionStorage stays, and the
\* script constructs a new SessionManager
Reload ==
    /\ Idle
    /\ storage = NULL => genCount < MaxGen
    /\ LET g == getOrCreateSessionId(storage, genCount)
       IN  /\ sessionId' = g.sessionId
           /\ storage' = g.storage
           /\ genCount' = g.genCount
           /\ epoch' = IF g.genCount = genCount THEN epoch ELSE epoch + 1
           /\ last' = Did("reload", "", storage, 0, FALSE)
    /\ isActive' = TRUE
    /\ inactivityTimer' = 0
    /\ timers' = {}
    /\ requests' = {}
    /\ calls' = Abandon(calls)
    /\ queries' = Abandon(queries)
    /\ lastSwitch' = "none"
    /\ UNCHANGED <<nextTimerId, microtasks, events>>

Next ==
    \/ Focus
    \/ Blur
    \/ VisibilityChange
    \/ InputActivity
    \/ Tick
    \/ TimerFire
    \/ BeforeUnload
    \/ ManualCleanup
    \/ DeleteResponse
    \/ ManualResume
    \/ UploadFiles
    \/ UploadResponse

\* the activity state machine, the timer and the calls that change the
\* identifier
Spec == Init /\ [][Next]_vars

\* every handler and every call of the manager, and page reloads, in the time
\* before an armed timeout is due
NextCalls ==
    \/ Focus
    \/ Blur
    \/ VisibilityChange
    \/ InputActivity
    \/ BeforeUnload
    \/ ManualCleanup
    \/ DeleteResponse
    \/ ManualResume
    \/ UploadFiles
    \/ UploadResponse
    \/ SendMessage
    \/ ChatResponse
    \/ GetSessionInfo
    \/ InfoResponse
    \/ Reload

SpecCalls == Init /\ [][NextCalls]_vars

\* everything together
NextAll ==
    \/ Next
    \/ SendMessage
    \/ ChatResponse
    \/ GetSessionInfo
    \/ InfoResponse
    \/ Reload

SpecAll == Init /\ [][NextAll]_vars

\* ================================================================== claims
PauseOps == {"blur", "hidden"}
ResumeOps == {"focus", "shown"}
\* the handlers that call cleanupSession()
CleanupOps == {"timerFire", "unload", "manualCleanup"}

\* the timer this.inactivityTimer names is pending with the full delay
ArmedFull ==
    \E t \in timers : t.id = inactivityTimer /\ t.remaining = INACTIVITY_TIMEOUT

\* C1 as stated: in every reachable state PAUSED implies that a timer is
\* pending and ACTIVE implies that none is.
C1_Original ==
    /\ ~isActive => timers # {}
    /\ isActive => timers = {}

\* C1 amended: a pause event (blur, hidden) leaves the state PAUSED with the
\* timer armed at the full timeout and a resume event (focus, shown) leaves it
\* ACTIVE with no timer armed; otherwise PAUSED has no timer pending only once
\* one was armed and has fired, and a timer pending while ACTIVE is one that
\* an input-activity event armed.
C1_Amended ==
    /\ last.op \in PauseOps => ~isActive /\ ArmedFull
    /\ last.op \in ResumeOps => isActive /\ timers = {} /\ inactivityTimer = 0
    /\ ~isActive /\ timers = {} => inactivityTimer # 0
    /\ isActive => \A t \in timers : t.by = "input"

\* a resume event ran after a timer had been armed, and none is pending
C1_Witness ==
    /\ last.op \in ResumeOps
    /\ lastSwitch \in ResumeOps
    /\ isActive /\ timers = {}
    /\ nextTimerId > 1

\* C2 as stated: the timer callback never runs while the state is ACTIVE.
C2_Original == last.op = "timerFire" => ~isActive

\* what a call of cleanupSession() has done when the handler that made it
\* returns: nothing if no identifier was held, else one delete request
\* carrying the identifier held, with the local state untouched
CleanupCalled ==
    IF last.sid = NULL
    THEN /\ \A r \in requests : r.call # last.call
         /\ sessionId = NULL
    ELSE /\ \E r \in requests :
              r.call = last.call /\ r.kind = "delete" /\ r.sid = last.sid
         /\ Cardinality({r \in requests : r.call = last.call}) = 1
         /\ sessionId = last.sid

\* C2 amended: the timer fires while PAUSED when a pause event armed it and
\* while ACTIVE when an input-activity event armed it; whenever it fires it
\* runs the cleanup procedure exactly as the page-teardown call does.
C2_Amended ==
    /\ last.op = "timerFire" => last.arg \in {"pause", "input"}
    /\ last.op = "timerFire" => (isActive <=> last.arg = "input")
    /\ last.op \in {"timerFire", "unload"} => CleanupCalled
    /\ last.op \in {"timerFire", "unload"} =>
           calls[last.call].op = "cleanup"
           /\ (calls[last.call].status = "returned" <=> last.sid = NULL)

\* the timer fired while ACTIVE and issued a delete request
C2_Witness ==
    /\ last.op = "timerFire"
    /\ isActive
    /\ \E r \in requests : r.call = last.call /\ r.kind = "delete"

\* C3: every transition to ACTIVE and every call of the cleanup procedure
\* leaves no inactivity timer pending, and a timer that was armed before a
\* cleanup call never fires after it.
C3_Claim ==
    /\ last.op \in ResumeOps => timers = {}
    /\ last.op \in CleanupOps => timers = {}
    /\ last.op = "timerFire" => ~last.stale

\* C4: at most one inactivity timer is pending, and it is the one that
\* this.inactivityTimer names.
C4_OneTimer ==
    /\ Cardinality(timers) <= 1
    /\ \A t \in timers : t.id = inactivityTimer

\* a second (or later) timer was armed while PAUSED and is the one pending
C4_Witness ==
    /\ last.op \in PauseOps \cup {"input"}
    /\ inactivityTimer >= 2
    /\ Cardinality(timers) = 1
    /\ lastSwitch \in PauseOps

\* C5: the state is ACTIVE exactly when the most recent focus / blur /
\* visibility event was a focus gain or a visibility-shown event, or there
\* was none; as no other handler records such an event, no other handler
\* changes the activity state.
C5_LastSwitch == isActive <=> lastSwitch \in {"none", "focus", "shown"}

\* a delete response arrived after the tab was hidden and shown again
C5_Witness ==
    /\ lastSwitch = "shown"
    /\ isActive
    /\ nextTimerId > 1
    /\ last.op = "deleteResponse"

\* C6: an input-activity event received while ACTIVE cancels the armed timer
\* and arms a new one with the full timeout, leaving the state ACTIVE; one
\* received while PAUSED changes neither the timer nor the state.
C6_InputResets ==
    [][last'.op = "input" =>
        IF isActive
        THEN /\ isActive'
             /\ inactivityTimer' = nextTimerId
             /\ timers' = {[id |-> nextTimerId, remaining |-> INACTIVITY_TIMEOUT,
                            elapsed |-> 0, by |-> "input", stale |-> FALSE]}
        ELSE UNCHANGED <<isActive, inactivityTimer, timers, nextTimerId>>]_vars

\* an input event while ACTIVE armed a second (or later) timer, which is
\* pending at the full timeout
C6_Witness ==
    /\ last.op = "input"
    /\ isActive
    /\ inactivityTimer >= 2
    /\ ArmedFull

\* C7 as stated: of two cleanup invocations made while the same identifier is
\* held, the second issues no delete request, also when it starts before the
\* response to the first has arrived: no two delete requests for the same
\* establishment of an identifier are ever in flight.
C7_Original ==
    \A r1, r2 \in requests :
        (r1.kind = "delete" /\ r2.kind = "delete"
         /\ r1.sid = r2.sid /\ r1.epoch = r2.epoch) => r1 = r2

\* C7 amended: a cleanup invocation that starts once an earlier delete has
\* succeeded and no identifier has been established since (the identifier is
\* null) is a no-op, it issues no request and changes no state; one that
\* starts while the identifier is still held, before the response to the
\* first has arrived or after it failed, issues a delete request of its own
\* carrying the held identifier.
C7_Amended ==
    [][last'.op \in CleanupOps =>
        /\ UNCHANGED <<sessionId, storage, isActive, inactivityTimer, events>>
        /\ IF sessionId = NULL
           THEN requests' = requests
           ELSE /\ requests' = requests \cup
                       {[kind |-> "delete", sid |-> sessionId,
                         call |-> Len(calls) + 1, epoch |-> epoch]}
                /\ Cardinality(requests') = Cardinality(requests) + 1]_vars

\* the second of two cleanup calls in succession found the identifier cleared
\* by the first and did nothing
C7_Witness ==
    /\ last.op = "unload"
    /\ last.call = 2
    /\ last.sid = NULL
    /\ calls[1].op = "cleanup" /\ calls[1].status = "returned"
    /\ calls[2].status = "returned"
    /\ requests = {}

\* C8: no cleanup invocation, direct or through manualCleanup, ever ends by
\* raising, whatever its response and however the invocations interleave;
\* an invocation that starts with a null identifier issues no request and
\* leaves the identifier and the storage slot as they are.
C8_NoRaise ==
    [][/\ \A i \in 1..Len(calls') :
              calls'[i].op \in {"cleanup", "manual"} => calls'[i].status # "threw"
       /\ (last'.op \in CleanupOps /\ sessionId = NULL) =>
              /\ requests' = requests
              /\ sessionId' = sessionId
              /\ storage' = storage]_vars

\* the delete of one cleanup failed with a transport error while a second
\* cleanup, started before that response, is still in flight
C8_Witness ==
    /\ last.op = "deleteResponse"
    /\ last.arg = "error"
    /\ last.call = 1
    /\ calls[1].op = "cleanup" /\ calls[1].status = "returned"
    /\ Len(calls) = 2
    /\ calls[2].op = "cleanup" /\ calls[2].status = "pending"

\* C9: when the delete response is a success the identifier and the storage
\* slot are both cleared; when it is a non-success status or a transport
\* error both are left exactly as they were.
C9_OnlySuccessClears ==
    [][last'.op = "deleteResponse" =>
        IF last'.arg = "ok"
        THEN sessionId' = NULL /\ storage' = NULL
        ELSE sessionId' = sessionId /\ storage' = storage]_vars

\* a delete failed with a non-success status and the identifier is still held
C9_Witness ==
    /\ last.op = "deleteResponse"
    /\ last.arg = "status"
    /\ sessionId # NULL
    /\ storage = sessionId

ManualCalls(status) ==
    {i \in 1..Len(calls) : calls[i].op = "manual" /\ calls[i].status = status}

\* C10: a manualCleanup invocation never raises and, until it ends, either
\* its delete request is in flight or its continuation is queued; it ends,
\* whatever the outcome of the delete, by generating a new non-null
\* identifier, storing it and dispatching one sessionChanged event carrying
\* it, so there is exactly one event per invocation that has ended.
C10_ManualEnds ==
    /\ ManualCalls("threw") = {}
    /\ \A i \in ManualCalls("pending") :
          Cardinality({r \in requests : r.call = i /\ r.kind = "delete"})
          + Cardinality({k \in 1..Len(microtasks) : microtasks[k].call = i}) = 1
    /\ Len(events) = Cardinality(ManualCalls("returned"))
    /\ last.op = "manualResume" =>
          /\ sessionId # NULL
          /\ sessionId # last.sid
          /\ \A k \in 1..(Len(events) - 1) : events[k] # sessionId
          /\ storage = sessionId
          /\ events[Len(events)] = sessionId
          /\ last.call \in ManualCalls("returned")

\* a manual cleanup whose delete failed with a non-success status has ended
C10_Witness ==
    /\ last.op = "manualResume"
    /\ last.arg = "status"
    /\ sessionId # NULL
    /\ storage = sessionId
    /\ Len(events) = 1

\* C11: hiding the tab (or losing focus) issues no request, and neither does
\* the passing of time; the timer armed then fires when exactly the
\* inactivity timeout has elapsed, its callback issues exactly one delete
\* request, carrying the identifier held, and leaves no timer pending; when
\* that delete succeeds the identifier is cleared from memory and storage.
C11_HiddenTimeout ==
    [][/\ last'.op \in PauseOps \cup {"tick"} =>
              requests' = requests /\ calls' = calls
       /\ (last'.op = "timerFire" /\ last'.arg = "pause") =>
              /\ last'.elapsed = INACTIVITY_TIMEOUT
              /\ timers' = {}
              /\ IF sessionId = NULL
                 THEN requests' = requests
                 ELSE /\ requests' \ requests =
                             {[kind |-> "delete", sid |-> sessionId,
                               call |-> last'.call, epoch |-> epoch]}
                      /\ requests \subseteq requests'
       /\ (last'.op = "deleteResponse" /\ last'.arg = "ok") =>
              sessionId' = NULL /\ storage' = NULL]_vars

\* the tab was hidden, nothing else happened, the timer fired after the
\* timeout and its delete succeeded
C11_Witness ==
    /\ lastSwitch = "hidden"
    /\ nextTimerId = 2 /\ inactivityTimer = 1 /\ timers = {}
    /\ Len(calls) = 1 /\ calls[1].op = "cleanup" /\ calls[1].status = "returned"
    /\ last.op = "deleteResponse" /\ last.arg = "ok"
    /\ sessionId = NULL /\ storage = NULL
    /\ requests = {}

\* the identifier held is one that an upload response assigned (only uploads
\* bring a server identifier once the initial one has been replaced)
UploadHeld == sessionId \in SrvIds /\ epoch > 1

\* C12: a successful upload response makes the identifier it returns the
\* one in memory and in storage; a chat call sends the identifier held; and
\* the identifier an upload assigned stays until a later manual cleanup, a
\* later upload, or a cleanup invoked after the upload changes it.
C12_Claim ==
    [][/\ (last'.op = "uploadResponse" /\ last'.arg = "ok") =>
              sessionId' \in SrvIds /\ storage' = sessionId'
       /\ (last'.op = "sendMessage" /\ sessionId # NULL) =>
              \E r \in requests' \ requests : r.kind = "chat" /\ r.sid = sessionId
       /\ (UploadHeld /\ (sessionId' # sessionId \/ storage' # storage)) =>
              \/ last'.op \in {"manualResume", "uploadResponse"}
              \/ /\ last'.op = "deleteResponse"
                 /\ \A r \in requests \ requests' : r.epoch = epoch]_vars

\* C13: a chat call made while no identifier is held throws the no-active-
\* session error at once and issues no request; one made while an identifier
\* is held issues exactly one chat request, carrying that identifier.
C13_ChatPrecondition ==
    [][last'.op = "sendMessage" =>
        /\ Len(queries') = Len(queries) + 1
        /\ last'.call = Len(queries')
        /\ queries'[last'.call].op = "chat"
        /\ IF sessionId = NULL
           THEN /\ requests' = requests
                /\ queries'[last'.call].status = "threw"
                /\ last'.arg = "No active session"
           ELSE /\ requests' \ requests =
                       {[kind |-> "chat", sid |-> sessionId,
                         call |-> last'.call, epoch |-> epoch]}
                /\ requests \subseteq requests'
                /\ queries'[last'.call].status = "pending"]_vars

\* a chat call was made after a cleanup had cleared the identifier, and threw
C13_Witness ==
    /\ last.op = "sendMessage"
    /\ last.sid = NULL
    /\ sessionId = NULL
    /\ queries[last.call].status = "threw"
    /\ \A r \in requests : r.kind # "chat"

\* C14: a manager constructed over a slot that holds an identifier takes
\* that identifier, generates nothing and leaves the slot as it is, so a
\* reload keeps the identifier; one constructed over an empty slot generates
\* a new identifier, holds it and writes it to the slot.
C14_GetOrCreate ==
    /\ sessionId # NULL /\ storage = sessionId
    /\ IF genCount = 0 THEN sessionId \in SrvIds ELSE sessionId = GenId(1)
    /\ [][last'.op = "reload" =>
            /\ last'.sid = storage
            /\ IF storage # NULL
               THEN /\ sessionId' = storage
                    /\ storage' = storage
                    /\ genCount' = genCount
               ELSE /\ sessionId' = GenId(genCount + 1)
                    /\ sessionId' # NULL
                    /\ storage' = sessionId'
                    /\ genCount' = genCount + 1]_vars

\* the identifier generated for an empty slot was stored, and the manager
\* constructed on reload took it from the slot
C14_Witness ==
    /\ last.op = "reload"
    /\ last.sid = GenId(1)
    /\ sessionId = GenId(1) /\ storage = GenId(1)
    /\ genCount = 1

\* C15: when the delete request of a cleanup or the request of the
\* session-info query ends with a non-success status or a transport error,
\* the call does not raise, and the activity state, the timer handle, the
\* pending timer and the record of the last focus / blur / visibility event
\* are as before, so the handlers go on as they would have.
C15_FailuresSwallowed ==
    [][(last'.op \in {"deleteResponse", "infoResponse"} /\ last'.arg # "ok") =>
        /\ UNCHANGED <<isActive, inactivityTimer, timers, nextTimerId, lastSwitch>>
        /\ \A i \in 1..Len(calls') : calls'[i].status # "threw"
           \/ calls'[i].op \notin {"cleanup", "manual"}
        /\ last'.op = "infoResponse" =>
               /\ queries'[last'.call].status = "null"
               /\ microtasks' = microtasks
               /\ calls' = calls]_vars

\* the info query failed with a transport error while the tab was paused
\* with its timer armed, and the timer is still armed
C15_Witness ==
    /\ last.op = "infoResponse"
    /\ last.arg = "error"
    /\ queries[last.call].status = "null"
    /\ ~isActive
    /\ ArmedFull

\* C16: an upload or chat call whose request ends with a non-success status
\* or a transport error ends by throwing to its caller, and the failed upload
\* leaves the identifier in memory and in storage as they were.
C16_FailuresSurface ==
    [][/\ (last'.op = "uploadResponse" /\ last'.arg # "ok") =>
              /\ calls[last'.call].op = "upload"
              /\ calls[last'.call].status = "pending"
              /\ calls'[last'.call].status = "threw"
              /\ sessionId' = sessionId
              /\ storage' = storage
       /\ (last'.op = "chatResponse" /\ last'.arg # "ok") =>
              /\ queries[last'.call].op = "chat"
              /\ queries[last'.call].status = "pending"
              /\ queries'[last'.call].status = "threw"]_vars

\* an upload failed with a non-success status: the call threw and the
\* identifier is the one held before
C16_Witness ==
    /\ last.op = "uploadResponse"
    /\ last.arg = "status"
    /\ calls[last.call].status = "threw"
    /\ sessionId # NULL
    /\ sessionId = last.sid
    /\ storage = sessionId

\* C17: the session-info query returns null at once, without a request, when
\* no identifier is held; otherwise it issues one request and returns the
\* metadata when the response is a success and null when it is a non-success
\* status or a transport error; neither step changes the identifier, the
\* storage slot, the activity state or the timer.
C17_InfoQuery ==
    [][/\ last'.op \in {"getSessionInfo", "infoResponse"} =>
              UNCHANGED <<sessionId, storage, isActive, inactivityTimer, timers,
                          nextTimerId>>
       /\ last'.op = "getSessionInfo" =>
              /\ last'.call = Len(queries) + 1
              /\ IF sessionId = NULL
                 THEN /\ requests' = requests
                      /\ queries'[last'.call].status = "null"
                 ELSE /\ requests' \ requests =
                             {[kind |-> "info", sid |-> sessionId,
                               call |-> last'.call, epoch |-> epoch]}
                      /\ requests \subseteq requests'
                      /\ queries'[last'.call].status = "pending"
       /\ last'.op = "infoResponse" =>
              /\ queries[last'.call].status = "pending"
              /\ queries'[last'.call].status =
                     IF last'.arg = "ok" THEN "metadata" ELSE "null"]_vars

\* the server answered the info query with a non-success status and the
\* query returned null, the identifier still held
C17_Witness ==
    /\ last.op = "infoResponse"
    /\ last.arg = "status"
    /\ queries[last.call].op = "info"
    /\ queries[last.call].status = "null"
    /\ sessionId # NULL /\ storage = sessionId

\* C18: between handlers the storage slot and the identifier in memory
\* agree: the slot is empty exactly when the identifier is null, and
\* otherwise holds the identifier.
C18_SlotAgrees ==
    /\ storage = NULL <=> sessionId = NULL
    /\ sessionId # NULL => storage = sessionId

\* an upload re-established an identifier after a cleanup had cleared memory
\* and slot, and both hold the new one
C18_Witness ==
    /\ last.op = "uploadResponse"
    /\ last.arg = "ok"
    /\ last.sid = NULL
    /\ sessionId \in SrvIds
    /\ storage = sessionId

\* C19: a successful delete response clears only the identifier its request
\* carried: when the identifier held on arrival differs from the one in the
\* request, identifier and storage slot stay as they are.
C19_Claim ==
    [][(last'.op = "deleteResponse" /\ last'.arg = "ok") =>
           \A r \in requests \ requests' :
               (r.kind = "delete" /\ r.sid # sessionId) =>
                   /\ sessionId' = sessionId
                   /\ storage' = storage]_vars

ActivityOps == PauseOps \cup ResumeOps \cup {"input"}

\* C20: the focus, blur, visibility and input handlers leave the identifier
\* in memory and the storage slot as they are and post no request; identifier
\* and slot change only in a successful delete response, at the end of a
\* manual cleanup and in a successful upload response.
C20_Frame ==
    [][/\ last'.op \in ActivityOps =>
              UNCHANGED <<sessionId, storage, requests, calls, queries, microtasks>>
       /\ (sessionId' # sessionId \/ storage' # storage) =>
              \/ last'.op = "deleteResponse" /\ last'.arg = "ok"
              \/ last'.op = "manualResume"
              \/ last'.op = "uploadResponse" /\ last'.arg = "ok"]_vars

\* an input event was handled while an identifier assigned by an upload was
\* held and a timeout was armed anew; nothing is in flight
C20_Witness ==
    /\ last.op = "input"
    /\ sessionId \in SrvIds
    /\ storage = sessionId
    /\ inactivityTimer # 0
    /\ requests = {}

====
